---- MODULE Spec2Model ----
(***************************************************************************)
(* The B2C user flow resource of terraform-provider-azuread:               *)
(* internal/services/b2cuserflow/userflow_resource.go.                     *)
(*                                                                         *)
(* The four lifecycle handlers (Create, Read, Update, Delete) act on the   *)
(* resource data d handed to them by the runtime and on the remote         *)
(* directory through the shared user flow client.  Every call of the       *)
(* client is one step, so that the remote side can change between two      *)
(* calls of the same handler.                                              *)
(***************************************************************************)
EXTENDS Integers, Sequences, FiniteSets, TLC

\* ------------------------------------------------------------------ bounds

\* number of polls of the deletion wait that fit into the context deadline
MaxProbes == 2

\* configured names (validate.NoEmptyStrings: never empty)
Names == {"a", "b"}

\* values of user_flow_type used (a subset of the six that are accepted)
UserFlowTypes == {"signUp", "signIn"}

\* float64 values of user_flow_type_version, on a grid on which every second
\* point is representable as a float32
Versions == {2, 3}

\* values of default_language_tag
Tags == {"", "en"}

\* ---------------------------------------------------------------- the data

VARIABLES
  d,               \* the schema.ResourceData of the resource: id and fields
  old,             \* the prior state the runtime diffs against (HasChange)
  remote,          \* the user flows of the directory, by identifier
  DisableRetries,  \* client.BaseClient.DisableRetries
  op,              \* the handler the runtime has invoked
  pc,              \* where that handler stands
  result,          \* what the handler returned: "ok" or "error"
  calls,           \* the client calls the handler has issued, in order
  req,             \* the entity sent by the last Create or Update call
  pre,             \* d when the handler was entered
  preRead,         \* d when the body of Read was entered
  preEntity,       \* the directory's entity under d's identifier at entry
  refreshed        \* d's fields were read from the directory by the last Read

vars == <<d, old, remote, DisableRetries, op, pc, result, calls, req, pre,
          preRead, preEntity, refreshed>>

\* a bug: the identifier is the bare name
UserFlowIdNoPrefix(name) == name

\* fmt.Sprintf("B2C_1_%s", name)
UserFlowId(name) == "B2C_1_" \o name

RemoteIds == {UserFlowId(n) : n \in Names}

\* float32(d.Get("user_flow_type_version").(float64)): rounds to the float32
\* grid.  The way back (tf.Set of a float32 into a TypeFloat field) widens
\* and is exact.
ToFloat32(v) == v - (v % 2)

\* a ResourceData with nothing in it
NoData ==
  [id |-> "", object_id |-> "", name |-> "", user_flow_type |-> "",
   user_flow_type_version |-> 0, default_language_tag |-> "",
   is_language_customization_enabled |-> FALSE]

\* no entity under an identifier of the directory
NoEntity ==
  [exists |-> FALSE, UserFlowType |-> "", UserFlowTypeVersion |-> 0,
   DefaultLanguageTag |-> "", IsLanguageCustomizationEnabled |-> FALSE]

\* msgraph.B2CUserFlow{} with every pointer nil
NoRequest ==
  [present |-> {}, ID |-> "", UserFlowType |-> "", UserFlowTypeVersion |-> 0,
   DefaultLanguageTag |-> "", IsLanguageCustomizationEnabled |-> FALSE]

\* userflowResp.ID == nil
NilID == "<nil>"

SetId(data, id) == [data EXCEPT !.id = id]

\* the entity Create sends: all five fields, the name as identifier
CreateRequest(data) ==
  [present |-> {"ID", "UserFlowType", "UserFlowTypeVersion",
                "DefaultLanguageTag", "IsLanguageCustomizationEnabled"},
   ID |-> data.name,
   UserFlowType |-> data.user_flow_type,
   UserFlowTypeVersion |-> ToFloat32(data.user_flow_type_version),
   DefaultLanguageTag |-> data.default_language_tag,
   IsLanguageCustomizationEnabled |-> data.is_language_customization_enabled]

\* a bug: Update sends the type and version as well
UpdateRequestWithType(data) ==
  [present |-> {"ID", "UserFlowType", "UserFlowTypeVersion",
                "DefaultLanguageTag", "IsLanguageCustomizationEnabled"},
   ID |-> data.id,
   UserFlowType |-> data.user_flow_type,
   UserFlowTypeVersion |-> ToFloat32(data.user_flow_type_version),
   DefaultLanguageTag |-> data.default_language_tag,
   IsLanguageCustomizationEnabled |-> data.is_language_customization_enabled]

\* the entity Update sends: the identifier and the two mutable fields
UpdateRequest(data) ==
  [present |-> {"ID", "DefaultLanguageTag", "IsLanguageCustomizationEnabled"},
   ID |-> data.id,
   UserFlowType |-> "",
   UserFlowTypeVersion |-> 0,
   DefaultLanguageTag |-> data.default_language_tag,
   IsLanguageCustomizationEnabled |-> data.is_language_customization_enabled]

\* a bug: a changed name is let through
ImmutableChangedNoName(o, data) ==
  \/ o.user_flow_type # data.user_flow_type
  \/ o.user_flow_type_version # data.user_flow_type_version

\* d.HasChange of user_flow_type, user_flow_type_version or name
ImmutableChanged(o, data) ==
  \/ o.user_flow_type # data.user_flow_type
  \/ o.user_flow_type_version # data.user_flow_type_version
  \/ o.name # data.name

\* a bug: an empty identifier in the response is accepted
BadResponseNilOnly(respID) == respID = NilID

\* userflowResp.ID == nil || *userflowResp.ID == ""
BadResponse(respID) == respID = NilID \/ respID = ""

\* a bug: Read forgets the version
ReadSetNoVersion(data, id, e) ==
  [data EXCEPT !.object_id = id,
               !.user_flow_type = e.UserFlowType,
               !.default_language_tag = e.DefaultLanguageTag,
               !.is_language_customization_enabled =
                   e.IsLanguageCustomizationEnabled]

\* the five tf.Set of Read
ReadSet(data, id, e) ==
  [data EXCEPT !.object_id = id,
               !.user_flow_type = e.UserFlowType,
               !.user_flow_type_version = e.UserFlowTypeVersion,
               !.default_language_tag = e.DefaultLanguageTag,
               !.is_language_customization_enabled =
                   e.IsLanguageCustomizationEnabled]

\* a bug: Read reports success and keeps the identifier
ReadNotFoundKeepsId(data) == data

\* Read, Get not found: d.SetId("")
ReadNotFound(data) == SetId(data, "")

\* Read, Get failed otherwise: d is not written
ReadFailed(data) == data

\* a bug: Delete keeps the identifier of an entity that is gone
DeleteNotFoundKeepsId(data) == data

\* Delete, request not found: d.SetId("")
DeleteNotFound(data) == SetId(data, "")

\* Delete, request accepted: d is not written, before or after the wait
DeleteAccepted(data) == data

\* a bug: probe errors are taken for "still exists"
ProbeSwallowsErrors(status) ==
  IF status = "NotFound" THEN "gone" ELSE "exists"

\* the probe handed to WaitForDeletion: what it reports for the Get's status
Probe(status) ==
  CASE status = "OK"       -> "exists"
    [] status = "NotFound" -> "gone"
    [] OTHER               -> "error"

\* a bug: the probe leaves the flag alone
ProbeKeepsRetries == DisableRetries

\* client.BaseClient.DisableRetries = true, first statement of the probe
ProbeDisableRetries == TRUE

\* a bug: the error of the wait is dropped
WaitFailedIgnored == "ok"

\* if err := helpers.WaitForDeletion(...); err != nil { return error }
WaitFailed == "error"

\* ------------------------------------------------------------ the directory

Visible(id) == id \in RemoteIds /\ remote[id].exists

\* statuses a request about an existing identifier can come back with
ExistingStatuses(id) ==
  IF Visible(id) THEN {"OK", "Error"} ELSE {"NotFound", "Error"}

\* the directory stores a created flow under the prefixed name
RemoteCreate(r) ==
  [remote EXCEPT ![UserFlowId(r.ID)] =
     [exists |-> TRUE,
      UserFlowType |-> r.UserFlowType,
      UserFlowTypeVersion |-> r.UserFlowTypeVersion,
      DefaultLanguageTag |-> r.DefaultLanguageTag,
      IsLanguageCustomizationEnabled |-> r.IsLanguageCustomizationEnabled]]

\* a field the request does not carry is not touched
RemoteUpdate(r) ==
  [remote EXCEPT ![r.ID] =
     [exists |-> TRUE,
      UserFlowType |->
        IF "UserFlowType" \in r.present
          THEN r.UserFlowType ELSE @.UserFlowType,
      UserFlowTypeVersion |->
        IF "UserFlowTypeVersion" \in r.present
          THEN r.UserFlowTypeVersion ELSE @.UserFlowTypeVersion,
      DefaultLanguageTag |->
        IF "DefaultLanguageTag" \in r.present
          THEN r.DefaultLanguageTag ELSE @.DefaultLanguageTag,
      IsLanguageCustomizationEnabled |->
        IF "IsLanguageCustomizationEnabled" \in r.present
          THEN r.IsLanguageCustomizationEnabled
          ELSE @.IsLanguageCustomizationEnabled]]

Call(method, status, respID) ==
  [method |-> method, status |-> status, respID |-> respID,
   retriesDisabled |-> DisableRetries]

\* the handler returns
Done(res) == pc' = "done" /\ result' = res

\* -------------------------------------------------------------------- Init

Init ==
  /\ d = NoData
  /\ old = NoData
  /\ remote = [i \in RemoteIds |-> NoEntity]
  /\ DisableRetries = FALSE
  /\ op = "none"
  /\ pc = "idle"
  /\ result = "none"
  /\ calls = <<>>
  /\ req = NoRequest
  /\ pre = NoData
  /\ preRead = NoData
  /\ preEntity = NoEntity
  /\ refreshed = FALSE

\* ----------------------------------------------------------------- Create

\* the runtime calls CreateContext for a resource that has no identifier
InvokeCreate ==
  /\ pc = "idle"
  /\ d.id = ""
  /\ \E n \in Names, t \in UserFlowTypes, v \in Versions, tag \in Tags,
        flag \in BOOLEAN :
       d' = [id |-> "", object_id |-> "", name |-> n, user_flow_type |-> t,
             user_flow_type_version |-> v, default_language_tag |-> tag,
             is_language_customization_enabled |-> flag]
  /\ old' = NoData
  /\ pre' = d'
  /\ op' = "Create"
  /\ pc' = "create"
  /\ calls' = <<>>
  /\ refreshed' = FALSE
  /\ preEntity' = NoEntity
  /\ UNCHANGED <<remote, DisableRetries, result, req, preRead>>

\* b2cuserflowResourceCreate up to its call of Read
b2cuserflowResourceCreate ==
  /\ pc = "create"
  /\ req' = CreateRequest(d)
  /\ \/ \* client.Create fails (also: the flow exists already)
        /\ calls' = Append(calls, Call("Create", "Error", NilID))
        /\ Done("error")
        /\ UNCHANGED <<d, remote, preRead>>
     \/ \* client.Create succeeds
        /\ ~Visible(UserFlowId(d.name))
        /\ remote' = RemoteCreate(req')
        /\ \E respID \in {NilID, "", UserFlowId(d.name)} :
             /\ calls' = Append(calls, Call("Create", "OK", respID))
             /\ IF BadResponse(respID)
                  THEN /\ Done("error")
                       /\ UNCHANGED <<d, preRead>>
                  ELSE /\ d' = SetId(d, UserFlowId(d.name))
                       /\ preRead' = d'
                       /\ pc' = "read"
                       /\ UNCHANGED result
  /\ UNCHANGED <<old, DisableRetries, op, pre, preEntity, refreshed>>

\* ------------------------------------------------------------------- Read

\* the runtime calls ReadContext (a refresh)
InvokeRead ==
  /\ pc = "idle"
  /\ d.id # ""
  /\ op' = "Read"
  /\ pc' = "read"
  /\ pre' = d
  /\ preRead' = d
  /\ calls' = <<>>
  /\ refreshed' = FALSE
  /\ preEntity' = remote[d.id]
  /\ UNCHANGED <<d, old, remote, DisableRetries, result, req>>

\* b2cuserflowResourceRead, called by the runtime, by Create or by Update
b2cuserflowResourceRead ==
  /\ pc = "read"
  /\ \E status \in ExistingStatuses(d.id) :
       /\ calls' = Append(calls, Call("Get", status, d.id))
       /\ CASE status = "OK" ->
                 /\ d' = ReadSet(d, d.id, remote[d.id])
                 /\ refreshed' = TRUE
                 /\ Done("ok")
            [] status = "NotFound" ->
                 /\ d' = ReadNotFound(d)
                 /\ refreshed' = FALSE
                 /\ Done("ok")
            [] OTHER ->
                 /\ d' = ReadFailed(d)
                 /\ refreshed' = FALSE
                 /\ Done("error")
  /\ UNCHANGED <<old, remote, DisableRetries, op, req, pre, preRead,
                 preEntity>>

\* ----------------------------------------------------------------- Update

\* the runtime calls UpdateContext with a configuration that differs from
\* the state it has just refreshed
InvokeUpdate ==
  /\ pc = "idle"
  /\ d.id # ""
  /\ refreshed
  /\ \E n \in Names, t \in UserFlowTypes, v \in Versions, tag \in Tags,
        flag \in BOOLEAN :
       /\ d' = [d EXCEPT !.name = n, !.user_flow_type = t,
                         !.user_flow_type_version = v,
                         !.default_language_tag = tag,
                         !.is_language_customization_enabled = flag]
       /\ d' # d
  /\ old' = d
  /\ pre' = d'
  /\ op' = "Update"
  /\ pc' = "update"
  /\ calls' = <<>>
  /\ refreshed' = FALSE
  /\ preEntity' = remote[d.id]
  /\ UNCHANGED <<remote, DisableRetries, result, req, preRead>>

\* b2cuserflowResourceUpdate up to its call of Read
b2cuserflowResourceUpdate ==
  /\ pc = "update"
  /\ IF ImmutableChanged(old, d)
       THEN /\ Done("error")
            /\ UNCHANGED <<remote, calls, req, preRead>>
       ELSE /\ req' = UpdateRequest(d)
            /\ \E status \in ExistingStatuses(d.id) :
                 /\ calls' = Append(calls, Call("Update", status, d.id))
                 /\ IF status = "OK"
                      THEN /\ remote' = RemoteUpdate(req')
                           /\ preRead' = d
                           /\ pc' = "read"
                           /\ UNCHANGED result
                      ELSE /\ Done("error")
                           /\ UNCHANGED <<remote, preRead>>
  /\ UNCHANGED <<d, old, DisableRetries, op, pre, preEntity, refreshed>>

\* ----------------------------------------------------------------- Delete

\* the runtime calls DeleteContext
InvokeDelete ==
  /\ pc = "idle"
  /\ d.id # ""
  /\ op' = "Delete"
  /\ pc' = "delete"
  /\ pre' = d
  /\ calls' = <<>>
  /\ refreshed' = FALSE
  /\ preEntity' = remote[d.id]
  /\ UNCHANGED <<d, old, remote, DisableRetries, result, req, preRead>>

\* b2cuserflowResourceDelete up to the wait
b2cuserflowResourceDelete ==
  /\ pc = "delete"
  /\ \E status \in ExistingStatuses(d.id) :
       /\ calls' = Append(calls, Call("Delete", status, d.id))
       /\ CASE status = "OK" ->
                 \* accepted: the flow is gone at once, or is still
                 \* returned for a while
                 /\ remote' \in {remote, [remote EXCEPT ![d.id] = NoEntity]}
                 /\ d' = DeleteAccepted(d)
                 /\ pc' = "wait"
                 /\ UNCHANGED result
            [] status = "NotFound" ->
                 /\ d' = DeleteNotFound(d)
                 /\ Done("ok")
                 /\ UNCHANGED remote
            [] OTHER ->
                 /\ Done("error")
                 /\ UNCHANGED <<d, remote>>
  /\ UNCHANGED <<old, DisableRetries, op, req, pre, preRead, preEntity,
                 refreshed>>

Probes == Len(calls) - 1

\* what the wait does with the report of its probe
WaiterNext(report) ==
  CASE report = "gone"   -> "success"
    [] report = "exists" -> "continue"
    [] OTHER             -> "failure"

\* one poll of helpers.WaitForDeletion: the probe runs, the wait goes on
\* or ends
WaitProbe ==
  /\ pc = "wait"
  /\ Probes < MaxProbes
  /\ DisableRetries' = ProbeDisableRetries
  /\ \E status \in ExistingStatuses(pre.id) :
       /\ calls' = Append(calls,
            [method |-> "Get", status |-> status, respID |-> pre.id,
             retriesDisabled |-> DisableRetries'])
       /\ CASE WaiterNext(Probe(status)) = "success"  -> Done("ok")
            [] WaiterNext(Probe(status)) = "continue" -> UNCHANGED <<pc, result>>
            [] OTHER                                  -> Done(WaitFailed)
  /\ UNCHANGED <<d, old, remote, op, req, pre, preRead, preEntity,
                 refreshed>>

\* the deadline of the context passes
WaitTimeout ==
  /\ pc = "wait"
  /\ Done(WaitFailed)
  /\ UNCHANGED <<d, old, remote, DisableRetries, op, calls, req, pre,
                 preRead, preEntity, refreshed>>

\* ------------------------------------------------------------- the runtime

\* the runtime takes the handler's result; a resource whose Delete succeeded
\* or whose identifier is empty is dropped from the state
Return ==
  /\ pc = "done"
  /\ d' = IF d.id = "" \/ (op = "Delete" /\ result = "ok") THEN NoData ELSE d
  /\ refreshed' = (refreshed /\ d'.id # "")
  /\ pc' = "idle"
  /\ op' = "none"
  /\ result' = "none"
  /\ calls' = <<>>
  /\ req' = NoRequest
  /\ old' = NoData
  /\ pre' = NoData
  /\ preRead' = NoData
  /\ preEntity' = NoEntity
  /\ UNCHANGED <<remote, DisableRetries>>

\* a flow leaves the directory: an accepted deletion completes, or somebody
\* else removes it
RemoteVanish ==
  /\ pc # "done"
  /\ \E i \in RemoteIds :
       /\ remote[i].exists
       /\ remote' = [remote EXCEPT ![i] = NoEntity]
  /\ UNCHANGED <<d, old, DisableRetries, op, pc, result, calls, req, pre,
                 preRead, preEntity, refreshed>>

Next ==
  \/ InvokeCreate
  \/ b2cuserflowResourceCreate
  \/ InvokeRead
  \/ b2cuserflowResourceRead
  \/ InvokeUpdate
  \/ b2cuserflowResourceUpdate
  \/ InvokeDelete
  \/ b2cuserflowResourceDelete
  \/ WaitProbe
  \/ WaitTimeout
  \/ Return
  \/ RemoteVanish

Spec == Init /\ [][Next]_vars

\* a handler that has been entered keeps running: its steps are not
\* postponed for ever
HandlerStep ==
  \/ b2cuserflowResourceCreate
  \/ b2cuserflowResourceRead
  \/ b2cuserflowResourceUpdate
  \/ b2cuserflowResourceDelete
  \/ WaitProbe
  \/ WaitTimeout

FairSpec == Init /\ [][Next]_vars /\ WF_vars(HandlerStep)

\* ------------------------------------------------------------------ claims

Last(seq) == seq[Len(seq)]

\* the identifier the handler that runs is about
Target == IF op = "Create" THEN "B2C_1_" \o pre.name ELSE pre.id

\* the name, type or version configured for the Update differs from the
\* prior state
ImmutableEdited ==
  \/ old.name # pre.name
  \/ old.user_flow_type # pre.user_flow_type
  \/ old.user_flow_type_version # pre.user_flow_type_version

\* C1: a Create whose request succeeds with a non-empty identifier sets the
\* local identifier to "B2C_1_" + name, and once the Get of its Read has
\* succeeded the identifier is still that value and the type and version are
\* the ones the Create request carried.
C1_CreateSetsPrefixedId ==
  /\ (op = "Create" /\ pc = "read") => d.id = "B2C_1_" \o pre.name
  /\ (op = "Create" /\ pc = "done" /\ Len(calls) = 2
        /\ calls[2].status = "OK") =>
       /\ d.id = "B2C_1_" \o pre.name
       /\ d.name = pre.name
       /\ d.user_flow_type = req.UserFlowType
       /\ d.user_flow_type_version = req.UserFlowTypeVersion
       /\ req.UserFlowType = pre.user_flow_type
       /\ req.ID = pre.name

\* a Create has gone through its Read for a version that no float32 holds
C1_Witness ==
  /\ op = "Create" /\ pc = "done" /\ result = "ok"
  /\ Len(calls) = 2 /\ calls[2].status = "OK"
  /\ d.id = "B2C_1_a"
  /\ pre.user_flow_type_version = 3
  /\ d.user_flow_type_version = 2

\* C2: an Update that changes name, type or version returns an error, has
\* issued no client call and has written nothing to the resource data,
\* whatever the two mutable fields are.
C2_ImmutableChangeRejected ==
  (op = "Update" /\ pc # "update" /\ ImmutableEdited) =>
     /\ pc = "done"
     /\ result = "error"
     /\ calls = <<>>
     /\ req = NoRequest
     /\ d = pre
     /\ d.id = old.id

\* an Update that renames the flow and changes its language tag was rejected
C2_Witness ==
  /\ op = "Update" /\ pc = "done" /\ result = "error" /\ calls = <<>>
  /\ old.name # pre.name
  /\ old.default_language_tag # pre.default_language_tag
  /\ remote[pre.id].exists

C4_ReadNotFoundAndFailure ==
  (op \in {"Create", "Read", "Update"} /\ pc = "done" /\ calls # <<>>
     /\ Last(calls).method = "Get") =>
     /\ Last(calls).status = "NotFound" =>
          (result = "ok" /\ d.id = "" /\ preRead.id # "")
     /\ Last(calls).status = "Error" =>
          (result = "error" /\ d = preRead)

\* the Read that ends a Create found the flow gone and emptied the identifier
C4_Witness ==
  /\ op = "Create" /\ pc = "done" /\ result = "ok"
  /\ Len(calls) = 2 /\ calls[2].status = "NotFound"
  /\ preRead.id = "B2C_1_a" /\ d.id = ""

\* C5: when the Delete request reports not-found, Delete empties the local
\* identifier and returns success at once, with no probe Get issued.
C5_DeleteNotFoundIsSuccess ==
  (op = "Delete" /\ calls # <<>> /\ calls[1].status = "NotFound") =>
     /\ pc = "done"
     /\ result = "ok"
     /\ d.id = ""
     /\ Len(calls) = 1
     /\ calls[1].method = "Delete"

\* a Delete of a flow that is no longer in the directory has succeeded
C5_Witness ==
  /\ op = "Delete" /\ pc = "done" /\ result = "ok"
  /\ Len(calls) = 1 /\ calls[1].status = "NotFound"
  /\ pre.id = "B2C_1_a" /\ d.id = ""
  /\ ~remote["B2C_1_a"].exists

\* every probe of the wait so far has found the flow
AllProbesFound ==
  /\ Len(calls) >= 2
  /\ \A i \in 1..Len(calls) : calls[i].status = "OK"

\* C6: a Delete whose request succeeds and whose probes all find the flow
\* until the deadline returns, and returns an error; whenever Delete returns
\* an error the resource data is what it was when Delete was called.
C6_DeleteTimesOut ==
  /\ []((op = "Delete" /\ pc = "done" /\ AllProbesFound) => result = "error")
  /\ []((op = "Delete" /\ pc = "done" /\ result = "error") => d = pre)
  /\ []((op = "Delete" /\ pc = "wait") => d = pre)
  /\ ((op = "Delete" /\ pc = "wait") ~> (op = "Delete" /\ pc = "done"))

\* a Delete has given up after every probe found the flow
C6_Witness ==
  /\ op = "Delete" /\ pc = "done" /\ result = "error"
  /\ AllProbesFound
  /\ d.id = "B2C_1_a"
  /\ remote["B2C_1_a"].exists

\* the creation response is a failure or carries no identifier
CreateRefused ==
  \/ calls[1].status # "OK"
  \/ calls[1].respID = NilID
  \/ calls[1].respID = ""

\* C7: when the creation request fails or answers without an identifier,
\* Create returns an error, the local identifier stays empty and no Read is
\* run; the identifier is set only after a response with a non-empty one.
C7_CreateFailureSetsNoId ==
  /\ (op = "Create" /\ calls # <<>> /\ CreateRefused) =>
       /\ pc = "done"
       /\ result = "error"
       /\ d.id = ""
       /\ Len(calls) = 1
  /\ (op = "Create" /\ d.id # "") =>
       /\ calls # <<>>
       /\ calls[1].method = "Create"
       /\ ~CreateRefused

\* a creation was answered with an empty identifier
C7_Witness ==
  /\ op = "Create" /\ pc = "done" /\ result = "error"
  /\ Len(calls) = 1 /\ calls[1].status = "OK" /\ calls[1].respID = ""
  /\ d.id = ""
  /\ remote["B2C_1_a"].exists

\* local and remote state agree about the flow the handler is about
Agree ==
  IF Visible(Target)
    THEN /\ d.id = Target
         /\ d.user_flow_type = remote[Target].UserFlowType
         /\ d.user_flow_type_version = remote[Target].UserFlowTypeVersion
         /\ d.default_language_tag = remote[Target].DefaultLanguageTag
         /\ d.is_language_customization_enabled =
              remote[Target].IsLanguageCustomizationEnabled
    ELSE d.id = ""

\* Delete has come back from the confirmation wait
ThroughWait == op = "Delete" /\ Len(calls) >= 2

\* C8 as stated: whenever a handler returns success, local and remote state
\* agree; in particular the local identifier is empty after a Delete that
\* succeeded through the wait.
C8_AgreeOnEverySuccess ==
  (pc = "done" /\ result = "ok") => Agree

\* C8, amended: whenever Create, Read or Update returns success, or Delete
\* returns success because the flow was already absent, local and remote
\* state agree; when Delete returns success through the wait, the flow is
\* absent and Delete has left the resource data, identifier included, as it
\* was.
C8_AgreeExceptAfterWait ==
  (pc = "done" /\ result = "ok") =>
     IF ThroughWait
       THEN ~Visible(Target) /\ d = pre /\ d.id # ""
       ELSE Agree

\* a Delete has succeeded through the wait and the identifier is still set
C8_Witness ==
  /\ op = "Delete" /\ pc = "done" /\ result = "ok"
  /\ Len(calls) = 2 /\ calls[2].status = "NotFound"
  /\ ~remote["B2C_1_a"].exists
  /\ d.id = "B2C_1_a"

\* C9: in Delete, probes are issued only after the Delete request succeeded;
\* a probe that finds the flow keeps the wait going, a probe that gets
\* not-found ends Delete with success, a probe that fails otherwise ends it
\* with an error, and no probe follows either; Delete succeeds through the
\* wait only after a probe saw not-found.
C9_ProbeDecidesTheWait ==
  (op = "Delete" /\ Len(calls) >= 2) =>
     /\ calls[1].method = "Delete"
     /\ calls[1].status = "OK"
     /\ \A i \in 2..Len(calls) : calls[i].method = "Get"
     /\ \A i \in 2..(Len(calls) - 1) : calls[i].status = "OK"
     /\ Last(calls).status = "OK" =>
          (pc = "wait" \/ (pc = "done" /\ result = "error"))
     /\ Last(calls).status = "NotFound" => (pc = "done" /\ result = "ok")
     /\ Last(calls).status = "Error" => (pc = "done" /\ result = "error")
     /\ (pc = "done" /\ result = "ok") => Last(calls).status = "NotFound"

\* a second probe failed after the first had found the flow
C9_Witness ==
  /\ op = "Delete" /\ pc = "done" /\ result = "error"
  /\ Len(calls) = 3
  /\ calls[2].status = "OK"
  /\ calls[3].status = "Error"

\* C10: every probe Get is issued with DisableRetries set; the flag is
\* written nowhere but in the probe, so the Delete request goes out with the
\* flag as it was, and once set the flag stays set, for every later call too.
C10_RetriesStayDisabled ==
  /\ [](op = "Delete" =>
          \A i \in 2..Len(calls) : calls[i].retriesDisabled)
  /\ [][DisableRetries => DisableRetries']_vars
  /\ [][DisableRetries' # DisableRetries =>
          (pc = "wait" /\ Len(calls') = Len(calls) + 1)]_vars
  /\ [][(pc # "wait" /\ Len(calls') = Len(calls) + 1) =>
          Last(calls').retriesDisabled = DisableRetries]_vars

\* a Create issued after a Delete has polled goes out with retries disabled
C10_Witness ==
  /\ op = "Create" /\ calls # <<>>
  /\ calls[1].method = "Create"
  /\ calls[1].retriesDisabled
  /\ DisableRetries

====
